---- MODULE Spec2Model ----
(***************************************************************************)
(* A model of kabuki's Hierarchical model builder                          *)
(* (src/kabuki/hierarchical.py): the Parameter descriptor with its scratch *)
(* fields, the retry loop of create_nodes, the construction of the group,  *)
(* variability, subject and bottom nodes, the dependency partitioner, the  *)
(* multi-run MAP estimation and the sampler / statistics cache.            *)
(*                                                                         *)
(* One action is one block of the code that runs without returning to a    *)
(* caller: one iteration of a retry loop, the bottom-node phase, one fit.  *)
(* The backend calls made inside a block are recorded in the log `calls`.  *)
(*                                                                         *)
(* Node objects are records.  The field gen of a node held by the model    *)
(* says whether the node was constructed in the most recent construction   *)
(* pass (0) or in an earlier one (1): every pass that starts ages the      *)
(* nodes that exist.  Parents and bindings stored inside a node keep the   *)
(* gen they had when the node was constructed.                             *)
(***************************************************************************)
EXTENDS Integers, Sequences, FiniteSets, TLC

VARIABLES
    data,            \* self.data: the rows, data_idx = position - 1
    names,           \* self.data.dtype.names: the columns of the data
    is_group_model,  \* self.is_group_model
    depends_on,      \* self.depends_on, in the order of its keys
    params,          \* self.params: the static part of each Parameter
    include,         \* self.include
    P,               \* per Parameter: group_nodes, var_nodes, subj_nodes, scratch fields
    nodes,           \* self.nodes: the published flat table
    value,           \* .value of the nodes of the published table, by key
    pc,              \* where the running call stands ("idle": no call runs)
    caller,          \* who called the running create_nodes
    retry,           \* create_nodes' argument
    tries,           \* create_nodes' local
    passes,          \* history: passes of _create() started by the running create_nodes
    calls,           \* history: the backend calls of the latest pass and bottom phase
    out,             \* history: how the latest pass / phase ended
    mapf,            \* the frame of the running map(): arguments and locals
    mc,              \* self.mc
    stats_cache,     \* self._stats and self._stats_chain
    ret,             \* what the latest finished top-level call returned or raised
    ncalls,          \* history: the calls of the environment that built nodes
    prev             \* the ret before that

cfgvars == <<data, names, is_group_model, depends_on, params, include>>
vars == <<data, names, is_group_model, depends_on, params, include, P, nodes, value,
          pc, caller, retry, tries, passes, calls, out, mapf, mc, stats_cache,
          ret, prev, ncalls>>

---------------------------------------------------------------------------
(* Bounds of the model *)

\* largest retry argument the environment passes to create_nodes; in such a
\* call a pass may fail only while tries <= MaxRetry
MaxRetry == 1
\* most passes that fail in one create_nodes() made by map, mcmc or sample
MaxNested == 1
\* most calls of the environment that build the nodes
MaxCalls == 1
\* largest max_retry argument the environment passes to map
MaxMapRetry == 2
\* largest runs argument the environment passes to map
MaxRuns == 2
\* largest number of chains sample() is let to produce
MaxChains == 2
\* most rows of a dataset that the constructor is given
MaxRows == 2
\* most samplers that mcmc() is let to build
MaxSamplers == 2

(* Program constants *)
DefaultRetry == 20
DefaultWarnCrit == 5

---------------------------------------------------------------------------
(* Python values *)

None == <<>>
Some(x) == <<x>>

\* a slot that holds None, a node, or an array of slots
NoneE == [k |-> "none"]
NodeE(n) == [k |-> "node", n |-> n]
ArrE(a) == [k |-> "arr", a |-> a]

ZeroProbability == "ZeroProbability"
ValueError == "ValueError"
KeyError == "KeyError"
TypeError == "TypeError"
IndexError == "IndexError"
AssertionError == "AssertionError"
\* pm.ZeroProbability is a subclass of ValueError
BackendFailures == {ZeroProbability, ValueError}

Digits == <<"0", "1", "2", "3", "4", "5", "6", "7", "8", "9">>
\* '%i' % n and str(n) for the small numbers of the model
IntStr(n) == Digits[n + 1]

RECURSIVE Join(_, _)
Join(strs, sep) ==
    IF strs = <<>> THEN ""
    ELSE IF Len(strs) = 1 THEN strs[1]
    ELSE strs[1] \o sep \o Join(Tail(strs), sep)

\* str() of one record of a structured array: "(1,)", "(1, 2)"
Str(t) ==
    "(" \o Join([i \in 1..Len(t) |-> IntStr(t[i])], ", ")
        \o (IF Len(t) = 1 THEN "," ELSE "") \o ")"

\* str() of a list of such records: "[]", "[(1,)]", "[(1,), (2,)]"
StrList(l) == "[" \o Join([i \in 1..Len(l) |-> Str(l[i])], ", ") \o "]"

LexLess(a, b) ==
    \E i \in 1..Len(a) :
        /\ a[i] < b[i]
        /\ \A j \in 1..(i - 1) : a[j] = b[j]

RECURSIVE SortTuples(_)
SortTuples(S) ==
    IF S = {} THEN <<>>
    ELSE LET m == CHOOSE x \in S : \A y \in S \ {x} : LexLess(x, y)
         IN  <<m>> \o SortTuples(S \ {m})

RECURSIVE SortInts(_)
SortInts(S) ==
    IF S = {} THEN <<>>
    ELSE LET m == CHOOSE x \in S : \A y \in S : x <= y
         IN  <<m>> \o SortInts(S \ {m})

---------------------------------------------------------------------------
(* The dataset *)

AllRows == 1..Len(data)

\* data[cols] of one row: the record of its values in the columns cols
RowKey(r, cols) == [i \in 1..Len(cols) |-> data[r][cols[i]]]

\* the values but the greatest one
UniqueButLast(rows, cols) ==
    LET u == SortTuples({RowKey(r, cols) : r \in rows})
    IN  SubSeq(u, 1, Len(u) - 1)

\* np.unique(data[cols]) over the rows `rows`
Unique(rows, cols) == SortTuples({RowKey(r, cols) : r \in rows})

\* self._subjs = np.unique(data['subj_idx']), self._num_subjs
Subjs == SortInts({data[r].subj_idx : r \in AllRows})
NumSubjs == Len(Subjs)

Row(s, c, d) == [subj_idx |-> s, c |-> c, d |-> d]

\* subject 7 has no row with c = 2
DataSparse == <<Row(3, 1, 1), Row(3, 2, 1), Row(7, 1, 1)>>

---------------------------------------------------------------------------
(* Parameter *)

\* the static arguments of Parameter.__init__
Parameter(name, create_group_node, create_subj_nodes, is_bottom_node, optional) ==
    [name |-> name,
     create_group_node |-> create_group_node,
     create_subj_nodes |-> create_subj_nodes,
     is_bottom_node |-> is_bottom_node,
     optional |-> optional]

\* the mutable part of a Parameter after __init__: empty mappings, scratch None
\* (var is no attribute until _set_subj_nodes sets it, and reset() leaves it)
NewParameter ==
    [group_nodes |-> <<>>, var_nodes |-> <<>>, subj_nodes |-> <<>>,
     group |-> NoneE, subj |-> NoneE, var |-> NoneE,
     tag |-> None, data |-> None, idx |-> None]

\* Parameter.reset
reset(p) ==
    [p EXCEPT !.group = NoneE, !.subj = NoneE, !.tag = None,
              !.data = None, !.idx = None]

\* Parameter.get_full_name
get_full_name(name, p) ==
    IF p.idx # None
    THEN IF p.tag # None
         THEN name \o p.tag[1] \o IntStr(p.idx[1])
         ELSE name \o IntStr(p.idx[1])
    ELSE IF p.tag # None
         THEN name \o p.tag[1]
         ELSE name

\* self.params_include, built by create_nodes
ParamsInclude ==
    SelectSeq(params, LAMBDA p : p.name \in include \/ ~p.optional)

IncludedNames == {ParamsInclude[i].name : i \in 1..Len(ParamsInclude)}

DependNames == {depends_on[i].name : i \in 1..Len(depends_on)}

\* self.depends_on[name]
DependCols(name) ==
    LET i == CHOOSE j \in 1..Len(depends_on) : depends_on[j].name = name
    IN  depends_on[i].cols

\* d.setdefault(key, v): an entry that exists is kept
PutIfAbsent(d, key, v) == d @@ (key :> v)

\* d[key] = v on an OrderedDict
Put(d, key, v) == (key :> v) @@ d

---------------------------------------------------------------------------
(* The backend: get_group_node, get_var_node, get_subj_node, get_bottom_node *)

\* The state threaded through one block of code:
\*   P      the Parameters
\*   calls  the backend calls made so far
\*   n      how many of them
\*   f      the call that is to fail (0: none)
\*   err    the exception that is propagating, or None
\*   res    the node the latest backend call returned
Thread(p, log, f) ==
    [P |-> p, calls |-> log, n |-> 0, f |-> f, err |-> None, res |-> NoneE]

\* a backend call that fails raises one of BackendFailures: which one is chosen
\* by the action that runs the block
BackendFailure == "BackendFailure"

NoBind == <<>>

\* a parent or a binding as a node keeps it: which nodes, without their own parents
RECURSIVE Ref(_)
Ref(e) ==
    IF e.k = "node" THEN NodeE([e.n EXCEPT !.mu = NoneE, !.sd = NoneE, !.bind = NoBind])
    ELSE IF e.k = "arr" THEN ArrE([i \in DOMAIN e.a |-> Ref(e.a[i])])
    ELSE e

\* Parameter attributes a backend call reads, as the call saw them
Seen(name, p, op, bind) ==
    [op |-> op, p |-> name, full_name |-> get_full_name(name, p),
     tag |-> p.tag, idx |-> p.idx, data |-> p.data,
     group |-> Ref(p.group), subj |-> Ref(p.subj), var |-> Ref(p.var),
     bind |-> [b \in DOMAIN bind |-> Ref(bind[b])]]

\* the node a backend call constructs: named full_name, a subject node with
\* parents mu = param.group and sd = param.var, a bottom node over the bindings
NewNode(name, p, op, bind) ==
    [op |-> op, p |-> name, full_name |-> get_full_name(name, p), gen |-> 0,
     mu |-> IF op = "subj" THEN Ref(p.group) ELSE NoneE,
     sd |-> IF op = "subj" THEN Ref(p.var) ELSE NoneE,
     bind |-> [b \in DOMAIN bind |-> Ref(bind[b])]]

\* one backend call: it returns a node or raises
Call(st, op, name, bind) ==
    LET p == st.P[name]
        failed == (st.n + 1 = st.f)
        rec == [seen |-> Seen(name, p, op, bind), ok |-> ~failed]
    IN  [st EXCEPT !.n = @ + 1,
                   !.calls = Append(@, rec),
                   !.err = IF failed THEN Some(BackendFailure) ELSE None,
                   !.res = IF failed THEN NoneE ELSE NodeE(NewNode(name, p, op, bind))]

Raise(st, e) == [st EXCEPT !.err = Some(e)]

---------------------------------------------------------------------------
(* Node Graph Builder: the non-bottom tiers *)

\* a selection that would hand every subject the rows of the whole tag
RowsOfTag(rows, subj) == rows

RowsOfSubj(rows, subj) == {r \in rows : data[r].subj_idx = subj}

\* the loop of _set_subj_nodes over self._subjs, from position i (1-based here,
\* subj_idx = i - 1 in the code)
RECURSIVE SubjLoop(_, _, _, _, _)
SubjLoop(st, param, tag, rows, i) ==
    IF st.err # None \/ i > NumSubjs THEN st
    ELSE LET name == param.name
             p0 == st.P[name]
             s1 == [st EXCEPT !.P[name] =
                        [p0 EXCEPT !.data = Some(RowsOfSubj(rows, Subjs[i])),
                                   !.group = p0.group_nodes[tag],
                                   !.var = p0.var_nodes[tag],
                                   !.tag = Some(tag),
                                   !.idx = Some(i - 1)]]
             s2 == Call(s1, "subj", name, NoBind)
         IN  IF s2.err # None THEN s2
             ELSE LET p2 == s2.P[name]
                      arr == p2.subj_nodes[tag].a
                      s3 == [s2 EXCEPT !.P[name] =
                                 reset([p2 EXCEPT !.subj_nodes[tag] =
                                            ArrE([arr EXCEPT ![i] = s2.res])])]
                  IN  SubjLoop(s3, param, tag, rows, i + 1)

\* Hierarchical._set_subj_nodes
SetSubjNodes(st, param, tag, rows) ==
    LET name == param.name
        s1 == [st EXCEPT !.P[name].tag = Some("var" \o tag),
                         !.P[name].data = Some(rows)]
        s2 == Call(s1, "var", name, NoBind)
    IN  IF s2.err # None THEN s2
        ELSE LET p2 == reset([s2.P[name] EXCEPT !.var_nodes = Put(@, tag, s2.res)])
                 p3 == [p2 EXCEPT !.subj_nodes =
                             Put(@, tag, ArrE([i \in 1..NumSubjs |-> NoneE]))]
             IN  SubjLoop([s2 EXCEPT !.P[name] = p3], param, tag, rows, 1)

\* Hierarchical._set_independet_param
SetIndependetParam(st, param) ==
    LET name == param.name
        s1 == [st EXCEPT !.P[name].tag = Some("")]
        s2 == Call(s1, "group", name, NoBind)
    IN  IF s2.err # None THEN s2
        ELSE LET p2 == reset([s2.P[name] EXCEPT !.group_nodes = Put(@, "", s2.res)])
                 s3 == [s2 EXCEPT !.P[name] = p2]
             IN  IF is_group_model /\ param.create_subj_nodes
                 THEN SetSubjNodes(s3, param, "", AllRows)
                 ELSE s3

\* the loop of _set_dependent_param over the unique elements uniq[i..]
RECURSIVE DependLoop(_, _, _, _)
DependLoop(st, param, uniq, i) ==
    IF st.err # None \/ i > Len(uniq) THEN st
    ELSE LET name == param.name
             cols == DependCols(name)
             rows == {r \in AllRows : RowKey(r, cols) = uniq[i]}
             tag == Str(uniq[i])
             s1 == [st EXCEPT !.P[name].tag = Some(tag),
                              !.P[name].data = Some(rows)]
             s2 == IF param.create_group_node
                   THEN Call(s1, "group", name, NoBind)
                   ELSE [s1 EXCEPT !.res = NoneE]
         IN  IF s2.err # None THEN s2
             ELSE LET p2 == reset([s2.P[name] EXCEPT
                                       !.group_nodes = Put(@, tag, s2.res)])
                      s3 == [s2 EXCEPT !.P[name] = p2]
                      s4 == IF is_group_model /\ param.create_subj_nodes
                            THEN SetSubjNodes(s3, param, tag, rows)
                            ELSE s3
                  IN  DependLoop(s4, param, uniq, i + 1)

\* Hierarchical._set_dependent_param
SetDependentParam(st, param) ==
    DependLoop(st, param, Unique(AllRows, DependCols(param.name)), 1)

\* the closure _create of create_nodes, from the i-th included parameter on
RECURSIVE CreateFrom(_, _)
CreateFrom(st, i) ==
    IF st.err # None \/ i > Len(ParamsInclude) THEN st
    ELSE LET param == ParamsInclude[i]
         IN  IF param.is_bottom_node THEN CreateFrom(st, i + 1)
             ELSE IF param.name \in DependNames
                  THEN CreateFrom(SetDependentParam(st, param), i + 1)
                  ELSE CreateFrom(SetIndependetParam(st, param), i + 1)

_create(st) == CreateFrom(st, 1)

---------------------------------------------------------------------------
(* Dependency Partitioner *)

\* d[key], which raises KeyError for a missing key
Lookup(d, key) ==
    IF key \in DOMAIN d THEN [err |-> None, v |-> d[key]]
    ELSE [err |-> Some(KeyError), v |-> NoneE]

\* e[i] of what a slot holds (i is 0-based): only an array can be indexed
Index(e, i) ==
    IF e.k = "arr" /\ i + 1 \in DOMAIN e.a THEN [err |-> None, v |-> e.a[i + 1]]
    ELSE IF e.k = "arr" THEN [err |-> Some(IndexError), v |-> NoneE]
    ELSE [err |-> Some(TypeError), v |-> NoneE]

ParamNamed(name) ==
    LET i == CHOOSE j \in 1..Len(params) : params[j].name = name
    IN  params[i]

\* a binding that would take the node of whichever tag
BindingOfAnyTag(Pm, param, tag) ==
    LET d == IF is_group_model /\ param.create_subj_nodes
             THEN Pm[param.name].subj_nodes ELSE Pm[param.name].group_nodes
    IN  IF tag \in DOMAIN d THEN [err |-> None, v |-> d[CHOOSE t \in DOMAIN d : TRUE]]
        ELSE [err |-> Some(KeyError), v |-> NoneE]

\* the node (or subject-node array) of `param` under `tag` that a terminal binds
Binding(Pm, param, tag) ==
    IF is_group_model /\ param.create_subj_nodes
    THEN Lookup(Pm[param.name].subj_nodes, tag)
    ELSE Lookup(Pm[param.name].group_nodes, tag)

\* a selection that would keep every row
SelectAllRows(rows, cols, elem) == rows

\* line 257: data[data[col_name] == depend_element]
SelectRows(rows, cols, elem) == {r \in rows : RowKey(r, cols) = elem}

\* Hierarchical._get_data_depend_rec; the loop over depend_elements is ElemLoop
RECURSIVE GetDataDependRec(_, _, _, _, _)
RECURSIVE ElemLoop(_, _, _, _, _, _, _, _)
GetDataDependRec(Pm, rows, deps, prm, dep_name) ==
    IF Len(deps) # 0
    THEN ElemLoop(Pm, rows, deps, prm, dep_name,
                  Unique(rows, Head(deps).cols), 1, <<>>)
    ELSE [err |-> None,
          terms |-> <<[data |-> rows, params |-> prm, dep_name |-> dep_name]>>]

ElemLoop(Pm, rows, deps, prm, dep_name, elems, i, acc) ==
    IF i > Len(elems) THEN [err |-> None, terms |-> acc]
    ELSE LET param_name == Head(deps).name
             col_name == Head(deps).cols
             depend_element == elems[i]
             data_dep == SelectRows(rows, col_name, depend_element)
         IN  IF param_name \notin IncludedNames
             THEN [err |-> Some(KeyError), terms |-> acc]
             ELSE LET b == Binding(Pm, ParamNamed(param_name), Str(depend_element))
                  IN  IF b.err # None THEN [err |-> b.err, terms |-> acc]
                      ELSE LET prm2 == Put(prm, param_name, b.v)
                               sub == GetDataDependRec(Pm, data_dep, Tail(deps), prm2,
                                                       Append(dep_name, depend_element))
                           IN  IF sub.err # None
                               THEN [err |-> sub.err, terms |-> acc]
                               ELSE ElemLoop(Pm, rows, deps, prm2, dep_name, elems,
                                             i + 1, acc \o sub.terms)

\* the first loop of _get_data_depend: the bindings of the parameters that
\* depend on nothing, from the i-th included parameter on
RECURSIVE BaseParams(_, _, _)
BaseParams(Pm, i, prm) ==
    IF i > Len(ParamsInclude) THEN [err |-> None, v |-> prm]
    ELSE LET param == ParamsInclude[i]
         IN  IF param.name \in DependNames \/ param.is_bottom_node
             THEN BaseParams(Pm, i + 1, prm)
             ELSE LET b == Binding(Pm, param, "")
                  IN  IF b.err # None THEN [err |-> b.err, v |-> prm]
                      ELSE BaseParams(Pm, i + 1, Put(prm, param.name, b.v))

\* Hierarchical._get_data_depend
GetDataDepend(Pm) ==
    LET base == BaseParams(Pm, 1, <<>>)
    IN  IF base.err # None THEN [err |-> base.err, terms |-> <<>>]
        ELSE GetDataDependRec(Pm, AllRows, depends_on, base.v, <<>>)

---------------------------------------------------------------------------
(* Bottom Node Binder *)

\* group model: the loop of _create_bottom_node over self.params_include that
\* collects the nodes of subject position i (0-based), from the j-th parameter on
RECURSIVE SelectSubjNodes(_, _, _, _, _, _)
SelectSubjNodes(Pm, prm, dep_name, i, j, sel) ==
    IF j > Len(ParamsInclude) THEN [err |-> None, v |-> sel]
    ELSE LET sp == ParamsInclude[j]
             has_key == dep_name \in DOMAIN Pm[sp.name].subj_nodes
             got ==
                 IF ~sp.create_subj_nodes
                 THEN IF has_key THEN Lookup(Pm[sp.name].group_nodes, dep_name)
                      ELSE Lookup(prm, sp.name)
                 ELSE IF has_key THEN Index(Pm[sp.name].subj_nodes[dep_name], i)
                      ELSE LET c == Lookup(prm, sp.name)
                           IN  IF c.err # None THEN c ELSE Index(c.v, i)
         IN  IF got.err # None THEN [err |-> got.err, v |-> sel]
             ELSE SelectSubjNodes(Pm, prm, dep_name, i, j + 1, Put(sel, sp.name, got.v))

\* a loop that would skip no subject
SkipNone(data_subj) == FALSE

\* lines 612-613: a subject without rows in the partition is skipped
SkipSubj(data_subj) == Cardinality(data_subj) = 0

\* group model: the loop of _create_bottom_node over self._subjs, from position i
\* (1-based here)
RECURSIVE BottomSubjLoop(_, _, _, _, _, _)
BottomSubjLoop(st, param, rows, prm, dep_name, i) ==
    IF st.err # None \/ i > NumSubjs THEN st
    ELSE LET name == param.name
             data_subj == RowsOfSubj(rows, Subjs[i])
         IN  IF SkipSubj(data_subj)
             THEN BottomSubjLoop(st, param, rows, prm, dep_name, i + 1)
             ELSE LET sel == SelectSubjNodes(st.P, prm, dep_name, i - 1, 1, <<>>)
                  IN  IF sel.err # None THEN Raise(st, sel.err[1])
                      ELSE LET s1 == [st EXCEPT !.P[name].tag = Some(dep_name),
                                                !.P[name].idx = Some(i - 1),
                                                !.P[name].data = Some(data_subj)]
                               s2 == Call(s1, "bottom", name, sel.v)
                               slot == Lookup(s2.P[name].subj_nodes, dep_name)
                           IN  IF s2.err # None THEN s2
                               ELSE IF slot.err # None THEN Raise(s2, slot.err[1])
                               ELSE IF slot.v.k # "arr" THEN Raise(s2, TypeError)
                               ELSE LET p3 == [s2.P[name] EXCEPT !.subj_nodes[dep_name] =
                                                   ArrE([slot.v.a EXCEPT ![i] = s2.res])]
                                        s3 == [s2 EXCEPT !.P[name] = reset(p3)]
                                    IN  BottomSubjLoop(s3, param, rows, prm, dep_name, i + 1)

\* non-group model: the loop of _create_bottom_node that rebinds, in params, every
\* included parameter that holds something under dep_name
RECURSIVE SelectGroupNodes(_, _, _, _)
SelectGroupNodes(Pm, prm, dep_name, j) ==
    IF j > Len(ParamsInclude) THEN prm
    ELSE LET sp == ParamsInclude[j]
         IN  IF dep_name \in DOMAIN Pm[sp.name].subj_nodes
             THEN SelectGroupNodes(Pm, Put(prm, sp.name, Pm[sp.name].subj_nodes[dep_name]),
                                   dep_name, j + 1)
             ELSE SelectGroupNodes(Pm, prm, dep_name, j + 1)

\* Hierarchical._create_bottom_node
CreateBottomNode(st, param, rows, prm, dep_name) ==
    IF is_group_model
    THEN BottomSubjLoop(st, param, rows, prm, dep_name, 1)
    ELSE LET name == param.name
             prm2 == SelectGroupNodes(st.P, prm, dep_name, 1)
             s1 == [st EXCEPT !.P[name].tag = Some(dep_name),
                              !.P[name].data = Some(rows)]
             s2 == Call(s1, "bottom", name, prm2)
         IN  IF s2.err # None THEN s2
             ELSE [s2 EXCEPT !.P[name] =
                       reset([s2.P[name] EXCEPT !.subj_nodes = Put(@, dep_name, s2.res)])]

\* the loop of _set_bottom_nodes over the terminals data_dep[i..]
RECURSIVE TermLoop(_, _, _, _, _)
TermLoop(st, param, init, terms, i) ==
    IF st.err # None \/ i > Len(terms) THEN st
    ELSE LET name == param.name
             dep_name == StrList(terms[i].dep_name)
             s1 == IF init
                   THEN [st EXCEPT !.P[name].subj_nodes =
                             Put(@, dep_name,
                                 IF is_group_model /\ param.create_subj_nodes
                                 THEN ArrE([k \in 1..NumSubjs |-> NoneE])
                                 ELSE NoneE)]
                   ELSE CreateBottomNode(st, param, terms[i].data, terms[i].params,
                                         dep_name)
         IN  TermLoop(s1, param, init, terms, i + 1)

\* Hierarchical._set_bottom_nodes
SetBottomNodes(st, param, init) ==
    LET data_dep == GetDataDepend(st.P)
    IN  IF data_dep.err # None THEN Raise(st, data_dep.err[1])
        ELSE TermLoop(st, param, init, data_dep.terms, 1)

\* the two loops of create_nodes over the bottom parameters (init, then create)
RECURSIVE BottomFrom(_, _, _)
BottomFrom(st, init, i) ==
    IF st.err # None \/ i > Len(ParamsInclude) THEN st
    ELSE LET param == ParamsInclude[i]
         IN  IF ~param.is_bottom_node THEN BottomFrom(st, init, i + 1)
             ELSE BottomFrom(SetBottomNodes(st, param, init), init, i + 1)

InitBottom(st) == BottomFrom(st, TRUE, 1)
\* a bottom phase without the loop that initializes
CreateBottomOnly(st) == BottomFrom(st, FALSE, 1)
CreateBottom(st) == BottomFrom(InitBottom(st), FALSE, 1)

\* the flat table create_nodes publishes: name + tag + tier suffix -> slot; of two
\* entries with one key the one written later (later parameter, then group < subj
\* < var) stays
TierOrder == <<"group", "subj", "var">>
TierNodes(p, tier) ==
    IF tier = "group" THEN p.group_nodes
    ELSE IF tier = "subj" THEN p.subj_nodes
    ELSE p.var_nodes
TableWrites(Pm) ==
    {[i |-> i, t |-> t, key |-> ParamsInclude[i].name \o tag \o "_" \o TierOrder[t],
      v |-> TierNodes(Pm[ParamsInclude[i].name], TierOrder[t])[tag]] :
        <<i, t, tag>> \in
            UNION {UNION {{<<i2, t2, tag2>> :
                             tag2 \in DOMAIN TierNodes(Pm[ParamsInclude[i2].name],
                                                       TierOrder[t2])} :
                          t2 \in 1..3} : i2 \in 1..Len(ParamsInclude)}}
NodeTable(Pm) ==
    LET W == TableWrites(Pm)
        Last(key) == CHOOSE w \in W : /\ w.key = key
                                      /\ \A u \in W : u.key = key =>
                                            (u.i < w.i \/ (u.i = w.i /\ u.t <= w.t))
    IN  [key \in {w.key : w \in W} |-> Last(key).v]

---------------------------------------------------------------------------
(* History bookkeeping: which nodes are of the pass in progress *)

RECURSIVE Aged(_)
Aged(e) ==
    IF e.k = "node" THEN NodeE([e.n EXCEPT !.gen = 1])
    ELSE IF e.k = "arr" THEN ArrE([i \in DOMAIN e.a |-> Aged(e.a[i])])
    ELSE e

AgedDict(d) == [t \in DOMAIN d |-> Aged(d[t])]

AgedParam(p) ==
    [p EXCEPT !.group_nodes = AgedDict(@), !.var_nodes = AgedDict(@),
              !.subj_nodes = AgedDict(@),
              !.group = Aged(@), !.subj = Aged(@), !.var = Aged(@)]

AgedParams(Pm) == [n \in DOMAIN Pm |-> AgedParam(Pm[n])]

\* the nodes a slot holds
RECURSIVE NodesOf(_)
NodesOf(e) ==
    IF e.k = "node" THEN {e.n}
    ELSE IF e.k = "arr" THEN UNION {NodesOf(e.a[i]) : i \in DOMAIN e.a}
    ELSE {}

DictNodes(d) == UNION {NodesOf(d[t]) : t \in DOMAIN d}

---------------------------------------------------------------------------
(* Returning to the caller *)

NoMap ==
    [runs |-> 0, max_retry |-> 0, warn_crit |-> 0, i |-> 0, retries |-> 0,
     maps |-> <<>>, attempts |-> <<>>]

NoMC == [set |-> FALSE, chains |-> 0, over |-> "none", id |-> 0]
\* pm.MCMC(self.nodes): a sampler over the table now published, no chain sampled
NewMC == [set |-> TRUE, chains |-> 0, over |-> "live", id |-> 1]
\* the sampler that replaces m: another object (history: id counts the samplers)
NextMC(m) == [NewMC EXCEPT !.id = m.id + 1]
\* a republished table leaves the sampler over the table it was built on
Outdated(m) == IF m.set THEN [m EXCEPT !.over = "stale"] ELSE m

NoStats == [set |-> FALSE, chain |-> 0, stats |-> NoneE]

\* what is kept of the call before the latest one
Brief(r) == IF r.op = "stats" THEN r ELSE [op |-> "other"]

\* the running top-level call ends with r
Idle(r) ==
    /\ pc' = "idle"
    /\ caller' = "env"
    /\ retry' = 0
    /\ tries' = 0
    /\ passes' = 0
    /\ ret' = r
    /\ prev' = Brief(ret)

\* a call of create_nodes(r) by `who` begins: lines 307-319
EnterCreate(r, who) ==
    /\ pc' = "create"
    /\ caller' = who
    /\ retry' = r
    /\ tries' = 0
    /\ passes' = 0

\* bottom nodes are the observed ones
Observed(e) == \E n \in NodesOf(e) : n.op = "bottom"

\* the values of freshly constructed nodes
InitValues(tbl) ==
    [key \in {k \in DOMAIN tbl : tbl[k].k # "none"} |->
        IF Observed(tbl[key]) THEN <<"data", 0>> ELSE <<"init", 0>>]

\* map's except clause, lines 389-394: give up on the run?
GiveUp(retries, max_retry) == retries >= max_retry

\* an exception e reaches map's try block (lines 383-394)
MapExcept(e) ==
    LET r == mapf.retries + 1
        att == Append(mapf.attempts, [run |-> mapf.i, ok |-> FALSE, err |-> e])
        failed == [op |-> "map", status |-> "error", err |-> e,
                   runs |-> mapf.runs, max_retry |-> mapf.max_retry,
                   run |-> mapf.i, attempts |-> att,
                   exhausted |-> (e = ZeroProbability)]
    IN  IF e = ZeroProbability /\ ~GiveUp(r, mapf.max_retry)
        THEN /\ mapf' = [mapf EXCEPT !.retries = r, !.attempts = att]
             /\ EnterCreate(DefaultRetry, "map")
             /\ UNCHANGED <<ret, prev>>
        ELSE /\ mapf' = NoMap
             /\ Idle(failed)

\* create_nodes returns the table tbl (line 353)
CreateReturns(tbl) ==
    /\ value' = InitValues(tbl)
    /\ UNCHANGED stats_cache
    /\ CASE caller = "map" ->
              /\ pc' = "fit"
              /\ mc' = Outdated(mc)
              /\ UNCHANGED <<caller, retry, tries, passes, mapf, ret, prev>>
         [] caller = "mcmc" ->
              /\ mc' = NextMC(mc)
              /\ Idle([op |-> "mcmc", status |-> "ok", err |-> ""])
              /\ UNCHANGED mapf
         [] caller = "sample" ->
              /\ mc' = [NextMC(mc) EXCEPT !.chains = 1]
              /\ Idle([op |-> "sample", status |-> "ok", err |-> ""])
              /\ UNCHANGED mapf
         [] OTHER ->
              /\ mc' = Outdated(mc)
              /\ Idle([op |-> "create_nodes", status |-> "ok", err |-> "",
                       cause |-> ""])
              /\ UNCHANGED mapf

\* create_nodes raises e; cause is the failure that made it do so
CreateRaises(e, cause) ==
    /\ UNCHANGED <<value, mc, stats_cache>>
    /\ IF caller = "map" THEN MapExcept(e)
       ELSE /\ Idle([op |-> IF caller = "env" THEN "create_nodes" ELSE caller,
                     status |-> "error", err |-> e, cause |-> cause])
            /\ UNCHANGED mapf

---------------------------------------------------------------------------
(* create_nodes *)

\* a loop that would make one pass more: tries <= retry
RetryOnceMore(t, r) == t <= r

\* line 324: is another pass made after a failed one?
RetryAgain(t, r) == t < r

\* line 328, raise pm.ZeroProbability, e: the exception create_nodes raises when
\* the retries are used up and the last pass failed with e
Reraise(e) == ZeroProbability

\* the events of create_nodes
Outcome(ev, kind, npasses) ==
    [ev |-> ev, kind |-> kind, passes |-> npasses, tries |-> tries, retry |-> retry]

NoOutcome == [ev |-> "none", kind |-> "", passes |-> 0, tries |-> 0, retry |-> 0]

\* the backend calls of a pass, and of a bottom phase, in which none fails
CleanCalls == _create(Thread(P, <<>>, 0)).n
CleanBottomCalls == CreateBottom(Thread(P, <<>>, 0)).n

\* the exceptions a block may be seen to end with: a failed backend call raises
\* one of BackendFailures, any other exception is itself
Kinds(err) ==
    IF err = None THEN {""}
    ELSE IF err[1] = BackendFailure THEN BackendFailures
    ELSE {err[1]}

\* a top-level call begins: nothing is returned yet, the logs start anew
BeginWithin(bound) ==
    /\ ncalls < bound
    /\ ncalls' = ncalls + 1
    /\ ret' = [op |-> "none"]
    /\ prev' = Brief(ret)
    /\ calls' = <<>>
    /\ out' = NoOutcome

Begin == BeginWithin(MaxCalls)

\* the environment calls create_nodes(retry = r)
CallCreateNodes ==
    /\ pc = "idle"
    /\ \E r \in 0..MaxRetry : EnterCreate(r, "env")
    /\ Begin
    /\ UNCHANGED <<cfgvars, P, nodes, value, mapf, mc, stats_cache>>

\* one iteration of the loop of lines 320-329: a pass of _create(), in which the
\* f-th backend call fails with `kind` (f = 0: none fails)
CreatePass ==
    /\ pc = "create"
    /\ \E f \in 0..CleanCalls :
        /\ f > 0 => tries < (IF caller = "env" THEN MaxRetry + 1 ELSE MaxNested)
        /\ LET st == _create(Thread(AgedParams(P), <<>>, f))
           IN  /\ P' = st.P
               /\ calls' = st.calls
               /\ nodes' = AgedDict(nodes)
               /\ \E kind \in Kinds(st.err) :
                    IF st.err = None
                    THEN /\ out' = Outcome("pass_ok", "", passes + 1)
                         /\ pc' = "bottom"
                         /\ passes' = passes + 1
                         /\ UNCHANGED <<caller, retry, tries, mapf, mc, stats_cache,
                                        value, ret, prev>>
                    ELSE IF kind \in BackendFailures /\ RetryAgain(tries, retry)
                    THEN /\ out' = Outcome("pass_retry", kind, passes + 1)
                         /\ tries' = tries + 1
                         /\ passes' = passes + 1
                         /\ UNCHANGED <<pc, caller, retry, mapf, mc, stats_cache,
                                        value, ret, prev>>
                    ELSE /\ out' = Outcome("pass_raise", kind, passes + 1)
                         /\ CreateRaises(IF kind \in BackendFailures
                                         THEN Reraise(kind) ELSE kind, kind)
    /\ UNCHANGED <<cfgvars, ncalls>>

\* lines 331-353: the placeholders of the bottom nodes, the bottom nodes (the
\* f-th backend call fails with `kind`), the table
CreateBottomNodes ==
    /\ pc = "bottom"
    /\ \E f \in 0..CleanBottomCalls :
        LET st == CreateBottom(Thread(P, calls, f))
        IN  /\ P' = st.P
            /\ calls' = st.calls
            /\ \E kind \in Kinds(st.err) :
                 IF st.err = None
                 THEN /\ nodes' = NodeTable(st.P)
                      /\ out' = Outcome("published", "", passes)
                      /\ CreateReturns(NodeTable(st.P))
                 ELSE /\ nodes' = nodes
                      /\ out' = Outcome("bottom_raise", kind, passes)
                      /\ CreateRaises(kind, kind)
    /\ UNCHANGED <<cfgvars, ncalls>>

---------------------------------------------------------------------------
(* map *)

\* the log-posteriors a fit may reach
LogPs == {0, 5, 7}

Abs(x) == IF x < 0 THEN 0 - x ELSE x

\* m.fit(): the optimizer moves every node that is not observed (j names the fit)
Fitted(v, j) ==
    [key \in DOMAIN v |-> IF v[key][1] = "data" THEN v[key] ELSE <<"fit", j>>]

\* a next run that would go on with the count of retries of the run before
NextRunKeepingCount(f) == [f EXCEPT !.i = @ + 1]

\* line 379-380: the next run starts, with its own count of retries
NextRun(f) == [f EXCEPT !.i = @ + 1, !.retries = 0]

\* sorted(maps, key=attrgetter('logp')): ascending and stable
RECURSIVE SortedMaps(_)
SortedMaps(maps) ==
    IF maps = <<>> THEN <<>>
    ELSE LET i == CHOOSE j \in 1..Len(maps) :
                    /\ \A k \in 1..Len(maps) : maps[j].logp <= maps[k].logp
                    /\ \A k \in 1..(j - 1) : maps[k].logp # maps[j].logp
             rest == [k \in 1..(Len(maps) - 1) |-> IF k < i THEN maps[k] ELSE maps[k + 1]]
         IN  <<maps[i]>> \o SortedMaps(rest)

\* sorted_maps[0], the fit of least logp
MinMap(sorted) == sorted[1]

\* line 399: max_map = sorted_maps[-1]
MaxMap(sorted) == sorted[Len(sorted)]

\* a warning for a difference of warn_crit already
WarnsAtCrit(runs, sorted, warn_crit) ==
    /\ runs >= 2
    /\ Abs(sorted[Len(sorted)].logp - sorted[Len(sorted) - 1].logp) >= warn_crit

\* lines 403-406: is the warning printed?
Warns(runs, sorted, warn_crit) ==
    /\ runs >= 2
    /\ Abs(sorted[Len(sorted)].logp - sorted[Len(sorted) - 1].logp) > warn_crit

\* a copy made if node.observed
CopiedObserved(max_map) == max_map.observed

\* lines 409-411: the names whose values are copied from max_map
Copied(max_map) == {name \in DOMAIN max_map.vals : name \notin max_map.observed}

\* the environment calls map(runs, max_retry) (warn_crit at its default)
CallMap ==
    /\ pc = "idle"
    /\ \E runs \in 0..MaxRuns, max_retry \in 0..MaxMapRetry :
        /\ mapf' = [runs |-> runs, max_retry |-> max_retry,
                    warn_crit |-> DefaultWarnCrit, i |-> 0, retries |-> 0,
                    maps |-> <<>>, attempts |-> <<>>]
        /\ IF runs = 0
           THEN /\ pc' = "select"
                /\ UNCHANGED <<caller, retry, tries, passes>>
           ELSE EnterCreate(DefaultRetry, "map")
    /\ Begin
    /\ UNCHANGED <<cfgvars, P, nodes, value, mc, stats_cache>>

\* lines 386-395 after create_nodes returned: pm.MAP(self.nodes), m.fit()
MapFit ==
    /\ pc = "fit"
    /\ \/ \E logp \in LogPs :
            LET j == Len(mapf.maps) + 1
                m == [logp |-> logp, vals |-> Fitted(value, j), fit |-> j,
                      observed |-> {key \in DOMAIN value : Observed(nodes[key])}]
                f2 == [mapf EXCEPT !.maps = Append(@, m),
                                   !.attempts = Append(@, [run |-> mapf.i, ok |-> TRUE,
                                                           err |-> ""])]
            IN  /\ value' = m.vals
                /\ mapf' = NextRun(f2)
                /\ IF mapf.i + 1 < mapf.runs
                   THEN EnterCreate(DefaultRetry, "map")
                   ELSE /\ pc' = "select"
                        /\ UNCHANGED <<caller, retry, tries, passes>>
                /\ UNCHANGED <<ret, prev>>
       \/ \E e \in BackendFailures :
            /\ UNCHANGED value
            /\ MapExcept(e)
    /\ UNCHANGED <<cfgvars, P, nodes, calls, out, mc, stats_cache, ncalls>>

\* lines 397-413: the best fit, the warning, the values copied back
MapSelect ==
    /\ pc = "select"
    /\ IF mapf.maps = <<>>
       THEN /\ UNCHANGED value
            /\ Idle([op |-> "map", status |-> "error", err |-> IndexError,
                     runs |-> mapf.runs, max_retry |-> mapf.max_retry,
                     run |-> mapf.i, attempts |-> mapf.attempts,
                     exhausted |-> FALSE])
       ELSE LET sorted_maps == SortedMaps(mapf.maps)
                max_map == MaxMap(sorted_maps)
                copied == Copied(max_map)
            IN  IF copied \subseteq DOMAIN value
                THEN /\ value' = [key \in DOMAIN value |->
                                     IF key \in copied THEN max_map.vals[key]
                                     ELSE value[key]]
                     /\ Idle([op |-> "map", status |-> "ok", err |-> "",
                              runs |-> mapf.runs, max_retry |-> mapf.max_retry,
                              warn_crit |-> mapf.warn_crit,
                              attempts |-> mapf.attempts, maps |-> mapf.maps,
                              max_map |-> max_map,
                              warned |-> Warns(mapf.runs, sorted_maps, mapf.warn_crit),
                              copied |-> copied, before |-> value])
                ELSE /\ UNCHANGED value
                     /\ Idle([op |-> "map", status |-> "error", err |-> KeyError,
                              runs |-> mapf.runs, max_retry |-> mapf.max_retry,
                              run |-> mapf.i, attempts |-> mapf.attempts,
                              exhausted |-> FALSE])
    /\ mapf' = NoMap
    /\ UNCHANGED <<cfgvars, P, nodes, calls, out, mc, stats_cache, ncalls>>

---------------------------------------------------------------------------
(* mcmc, sample, stats *)

\* Hierarchical.mcmc
CallMcmc ==
    /\ pc = "idle"
    /\ mc.id < MaxSamplers
    /\ IF DOMAIN nodes = {}
       THEN /\ EnterCreate(DefaultRetry, "mcmc")
            /\ Begin
            /\ UNCHANGED mc
       ELSE /\ mc' = NextMC(mc)
            /\ Idle([op |-> "mcmc", status |-> "ok", err |-> ""])
            /\ UNCHANGED <<calls, out, ncalls>>
    /\ UNCHANGED <<cfgvars, P, nodes, value, mapf, stats_cache>>

\* Hierarchical.sample: every sample() adds a chain to self.mc.db
CallSample ==
    /\ pc = "idle"
    /\ IF ~mc.set
       THEN IF DOMAIN nodes = {}
            THEN /\ EnterCreate(DefaultRetry, "sample")
                 /\ Begin
                 /\ UNCHANGED mc
            ELSE /\ mc' = [NextMC(mc) EXCEPT !.chains = 1]
                 /\ Idle([op |-> "sample", status |-> "ok", err |-> ""])
                 /\ UNCHANGED <<calls, out, ncalls>>
       ELSE /\ mc.chains < MaxChains
            /\ mc' = [mc EXCEPT !.chains = @ + 1]
            /\ Idle([op |-> "sample", status |-> "ok", err |-> ""])
            /\ UNCHANGED <<calls, out, ncalls>>
    /\ UNCHANGED <<cfgvars, P, nodes, value, mapf, stats_cache>>

\* self.mc.stats(*args, **kwargs): the statistics the sampler m computes
McStats(m, kw) ==
    [k |-> "stats", chain |-> kw, chains |-> m.chains, over |-> m.over, by |-> m.id]

\* Hierarchical.stats, lines 716-729, once self.mc.db.chains was read: what the
\* call returns, and the cache it leaves
StatsBody(cache, m, kw) ==
    LET nchains == m.chains
        i_chain == IF kw # None THEN kw[1] ELSE nchains
    IN  IF cache.set
        THEN IF cache.chain = i_chain
             THEN [val |-> cache.stats, cache |-> cache, computed |-> FALSE,
                   i_chain |-> i_chain]
             ELSE [val |-> NoneE, cache |-> cache, computed |-> FALSE,
                   i_chain |-> i_chain]
        ELSE LET s == McStats(m, kw)
             IN  [val |-> s, computed |-> TRUE, i_chain |-> i_chain,
                  cache |-> [set |-> TRUE, chain |-> i_chain, stats |-> s]]

\* the message of the ValueError of stats, print_stats and print_group_stats
NoModelFound == "No model found."

ModelAssumed(m) == FALSE

\* lines 711-714: self.mc.db.chains raises AttributeError, self.mc being None
NoModel(m) == ~m.set

\* the environment calls stats() or stats(chain = c)
Stats ==
    /\ pc = "idle"
    /\ \E kw \in {None} \cup {Some(c) : c \in 0..MaxChains} :
        IF NoModel(mc)
        THEN /\ UNCHANGED stats_cache
             /\ Idle([op |-> "stats", status |-> "error", err |-> ValueError,
                      msg |-> NoModelFound, kw |-> kw, i_chain |-> 0, computed |-> FALSE, val |-> NoneE,
                      before |-> stats_cache])
        ELSE LET r == StatsBody(stats_cache, mc, kw)
             IN  /\ stats_cache' = r.cache
                 /\ Idle([op |-> "stats", status |-> "ok", err |-> "",
                          kw |-> kw, i_chain |-> r.i_chain, computed |-> r.computed,
                          val |-> r.val, before |-> stats_cache])
    /\ UNCHANGED <<cfgvars, P, nodes, value, calls, out, mapf, mc, ncalls>>

\* the environment calls print_stats() or print_group_stats(): self.stats(), whose
\* ValueError is not caught, then the printing of self._stats
PrintStats ==
    /\ pc = "idle"
    /\ \E op \in {"print_stats", "print_group_stats"} :
        IF NoModel(mc)
        THEN /\ UNCHANGED stats_cache
             /\ Idle([op |-> op, status |-> "error", err |-> ValueError,
                      msg |-> NoModelFound, computed |-> FALSE, printed |-> NoneE,
                      before |-> stats_cache])
        ELSE LET r == StatsBody(stats_cache, mc, None)
             IN  /\ stats_cache' = r.cache
                 /\ Idle([op |-> op, status |-> "ok", err |-> "", msg |-> "",
                          computed |-> r.computed, printed |-> r.cache.stats,
                          before |-> stats_cache])
    /\ UNCHANGED <<cfgvars, P, nodes, value, calls, out, mapf, mc, ncalls>>

---------------------------------------------------------------------------
(* The models checked *)

\* the Parameters of the model: a (a latent parameter) and x (the likelihood)
ParamLists ==
    {<<Parameter("a", cg, cs, FALSE, FALSE), Parameter("x", TRUE, xs, TRUE, FALSE)>> :
        <<cg, cs, xs>> \in BOOLEAN \X BOOLEAN \X BOOLEAN}

DependsOns == {<<>>, <<[name |-> "a", cols |-> <<"c">>]>>}

\* the state after Hierarchical.__init__
Constructed ==
    /\ names = {"subj_idx", "c", "d"}
    /\ P = [n \in {params[i].name : i \in 1..Len(params)} |-> NewParameter]
    /\ nodes = <<>>
    /\ value = <<>>
    /\ pc = "idle"
    /\ caller = "env"
    /\ retry = 0
    /\ tries = 0
    /\ passes = 0
    /\ calls = <<>>
    /\ out = NoOutcome
    /\ mapf = NoMap
    /\ mc = NoMC
    /\ stats_cache = NoStats
    /\ ret = [op |-> "none"]
    /\ prev = [op |-> "none"]
    /\ ncalls = 0

\* a flag the code never reads in a model is left at its default there:
\* create_group_node is read for a parameter in depends_on only,
\* create_subj_nodes in a group model only
FlagsRead ==
    /\ \A i \in 1..Len(params) :
         /\ params[i].name \notin DependNames => params[i].create_group_node
         /\ ~is_group_model => params[i].create_subj_nodes

Init ==
    /\ data = DataSparse
    /\ is_group_model \in BOOLEAN
    /\ depends_on \in DependsOns
    /\ params \in ParamLists
    /\ include = {}
    /\ FlagsRead
    /\ Constructed

Next ==
    \/ CallCreateNodes
    \/ CreatePass
    \/ CreateBottomNodes
    \/ CallMap
    \/ MapFit
    \/ MapSelect

Spec == Init /\ [][Next]_vars

\* the sampler and its statistics, over one model
InitSampler ==
    /\ data = DataSparse
    /\ is_group_model = TRUE
    /\ depends_on = <<[name |-> "a", cols |-> <<"c">>]>>
    /\ params = <<Parameter("a", TRUE, TRUE, FALSE, FALSE),
                  Parameter("x", TRUE, TRUE, TRUE, FALSE)>>
    /\ include = {}
    /\ Constructed

NextSampler ==
    \/ CallMcmc
    \/ CallSample
    \/ Stats
    \/ PrintStats
    \/ CreatePass
    \/ CreateBottomNodes

SpecSampler == InitSampler /\ [][NextSampler]_vars

\* the environment calls create_nodes(retry = r) on a model that holds a sampler
RebuildNodes ==
    /\ pc = "idle"
    /\ mc.set
    /\ \E r \in 0..MaxRetry : EnterCreate(r, "env")
    /\ BeginWithin(MaxCalls + 1)
    /\ UNCHANGED <<cfgvars, P, nodes, value, mapf, mc, stats_cache>>

\* mcmc and sample, with the graph rebuilt in between
NextRebuild ==
    \/ CallMcmc
    \/ CallSample
    \/ RebuildNodes
    \/ CreatePass
    \/ CreateBottomNodes

SpecRebuild == InitSampler /\ [][NextRebuild]_vars

\* the environment calls _get_data_depend(): the terminals it returns, each with
\* its rows (by data_idx) and its tag path
CallGetDataDepend ==
    /\ pc = "idle"
    /\ LET r == GetDataDepend(P)
       IN  Idle([op |-> "_get_data_depend",
                 status |-> IF r.err = None THEN "ok" ELSE "error",
                 err |-> IF r.err = None THEN "" ELSE r.err[1],
                 terms |-> [i \in 1..Len(r.terms) |->
                               [data |-> r.terms[i].data,
                                params |-> r.terms[i].params,
                                dep_name |-> r.terms[i].dep_name]],
                 depends_on |-> depends_on])
    /\ UNCHANGED <<cfgvars, P, nodes, value, calls, out, mapf, mc, stats_cache, ncalls>>

\* the datasets and dependency maps (of depth 0 to 3) that are partitioned
PartData ==
    {<<>>,
     <<Row(3, 1, 1)>>,
     DataSparse,
     <<Row(3, 1, 1), Row(7, 1, 2), Row(3, 2, 2)>>,
     <<Row(3, 1, 1), Row(3, 1, 2), Row(7, 2, 1), Row(7, 2, 2)>>}

PartDepends ==
    {<<>>,
     <<[name |-> "a", cols |-> <<"c">>]>>,
     <<[name |-> "a", cols |-> <<"c", "d">>]>>,
     <<[name |-> "a", cols |-> <<"c">>], [name |-> "b", cols |-> <<"d">>]>>,
     <<[name |-> "a", cols |-> <<"c">>], [name |-> "b", cols |-> <<"d">>],
       [name |-> "e", cols |-> <<"subj_idx">>]>>}

\* the partitioner, over a model of three latent parameters and the likelihood
InitPartition ==
    /\ data \in PartData
    /\ is_group_model = FALSE
    /\ depends_on \in PartDepends
    /\ params = <<Parameter("a", TRUE, TRUE, FALSE, FALSE),
                  Parameter("b", TRUE, TRUE, FALSE, FALSE),
                  Parameter("e", TRUE, TRUE, FALSE, FALSE),
                  Parameter("x", TRUE, TRUE, TRUE, FALSE)>>
    /\ include = {}
    /\ Constructed

NextPartition ==
    \/ CallCreateNodes
    \/ CreatePass
    \/ CreateBottomNodes
    \/ CallGetDataDepend

SpecPartition == InitPartition /\ [][NextPartition]_vars

\* the partitioner after create_nodes, over group models and others, with the
\* flags of the Parameter a as they may be given
BindData ==
    {DataSparse, <<Row(3, 1, 1), Row(7, 1, 2), Row(3, 2, 2)>>}

InitBinding ==
    /\ data \in BindData
    /\ is_group_model \in BOOLEAN
    /\ depends_on \in PartDepends
    /\ params \in {<<Parameter("a", cg, cs, FALSE, FALSE),
                      Parameter("b", TRUE, TRUE, FALSE, FALSE),
                      Parameter("e", TRUE, FALSE, FALSE, FALSE),
                      Parameter("x", TRUE, TRUE, TRUE, FALSE)>> :
                        <<cg, cs>> \in BOOLEAN \X BOOLEAN}
    /\ include = {}
    /\ Constructed

NextBinding ==
    \/ CallCreateNodes
    \/ CreatePass
    \/ CreateBottomNodes
    \/ CallGetDataDepend

SpecBinding == InitBinding /\ [][NextBinding]_vars

\* models whose Parameter a is given create_group_node = False, in depends_on or
\* not
InitNoGroup ==
    /\ data = DataSparse
    /\ is_group_model \in BOOLEAN
    /\ depends_on \in DependsOns
    /\ params \in {pl \in ParamLists : ~pl[1].create_group_node}
    /\ include = {}
    /\ Constructed

NextNoGroup ==
    \/ CallCreateNodes
    \/ CreatePass
    \/ CreateBottomNodes

SpecNoGroup == InitNoGroup /\ [][NextNoGroup]_vars

---------------------------------------------------------------------------
(* The constructor *)

\* lines 178-190: the exception for a column of depends_on that the data lack
DependsChecked(dep, cols) ==
    IF \E i \in 1..Len(dep) : \E j \in 1..Len(dep[i].cols) : dep[i].cols[j] \notin cols
    THEN Some(KeyError)
    ELSE None

\* lines 192-206: self.is_group_model, for the argument arg (None: not given)
IsGroupModel(arg, cols, rows) ==
    IF arg = None
    THEN IF "subj_idx" \in cols
         THEN [err |-> None,
               v |-> Cardinality({rows[i].subj_idx : i \in 1..Len(rows)}) # 1]
         ELSE [err |-> None, v |-> FALSE]
    ELSE IF arg[1] /\ "subj_idx" \notin cols
         THEN [err |-> Some(ValueError), v |-> FALSE]
         ELSE [err |-> None, v |-> arg[1]]

\* Hierarchical.__init__(data, is_group_model = arg, depends_on, include)
Construct ==
    /\ pc = "new"
    /\ \E arg \in {None, Some(TRUE), Some(FALSE)} :
         LET dep == DependsChecked(depends_on, names)
             g == IsGroupModel(arg, names, data)
             err == IF dep # None THEN dep ELSE g.err
         IN  IF err = None
             THEN /\ is_group_model' = g.v
                  /\ Idle([op |-> "__init__", status |-> "ok", err |-> "", arg |-> arg])
             ELSE /\ pc' = "failed"
                  /\ ret' = [op |-> "__init__", status |-> "error", err |-> err[1],
                             arg |-> arg]
                  /\ UNCHANGED <<is_group_model, caller, retry, tries, passes, prev>>
    /\ UNCHANGED <<data, names, depends_on, params, include, P, nodes, value, calls, out,
                   mapf, mc, stats_cache, ncalls>>

\* the datasets the constructor is given: with or without the column subj_idx, of
\* no row up to MaxRows rows
CtorColumns == {{"subj_idx", "c", "d"}, {"c", "d"}}
CtorRows(cols) ==
    IF "subj_idx" \in cols THEN {Row(s, 1, 1) : s \in {3, 7}}
    ELSE {[c |-> v, d |-> 1] : v \in {1, 2}}
CtorData(cols) == UNION {[1..n -> CtorRows(cols)] : n \in 0..MaxRows}

CtorDepends ==
    {<<>>, <<[name |-> "a", cols |-> <<"c">>]>>, <<[name |-> "a", cols |-> <<"subj_idx">>]>>}

\* before __init__ has run: its arguments, and no attribute yet
InitCtor ==
    /\ names \in CtorColumns
    /\ data \in CtorData(names)
    /\ depends_on \in CtorDepends
    /\ params = <<Parameter("a", TRUE, TRUE, FALSE, FALSE),
                  Parameter("x", TRUE, TRUE, TRUE, FALSE)>>
    /\ include = {}
    /\ is_group_model = None
    /\ P = [n \in {params[i].name : i \in 1..Len(params)} |-> NewParameter]
    /\ nodes = <<>>
    /\ value = <<>>
    /\ pc = "new"
    /\ caller = "env"
    /\ retry = 0
    /\ tries = 0
    /\ passes = 0
    /\ calls = <<>>
    /\ out = NoOutcome
    /\ mapf = NoMap
    /\ mc = NoMC
    /\ stats_cache = NoStats
    /\ ret = [op |-> "none"]
    /\ prev = [op |-> "none"]
    /\ ncalls = 0

NextCtor == Construct

SpecCtor == InitCtor /\ [][NextCtor]_vars

---------------------------------------------------------------------------
(* get_node *)

\* a Parameter with its attribute default (None: not given)
Defaulted(p, default) ==
    [name |-> p.name,
     create_group_node |-> p.create_group_node,
     create_subj_nodes |-> p.create_subj_nodes,
     is_bottom_node |-> p.is_bottom_node,
     optional |-> p.optional,
     default |-> default]

\* self.params_dict[name], built by create_nodes
ParamsDict(name) ==
    LET i == CHOOSE j \in 1..Len(params) : params[j].name = name
    IN  params[i]

\* Hierarchical.get_node(node_name, prm): the node of prm, the default or the
\* exception
GetNode(node_name, prm) ==
    IF node_name \in include
    THEN IF node_name \in DOMAIN prm
         THEN [err |-> None, v |-> [kind |-> "node", v |-> prm[node_name]]]
         ELSE [err |-> Some(KeyError), v |-> None]
    ELSE IF ParamsDict(node_name).default = None
         THEN [err |-> Some(AssertionError), v |-> None]
         ELSE [err |-> None, v |-> [kind |-> "default", v |-> ParamsDict(node_name).default[1]]]

\* the dicts that get_bottom_node is given: a node for every non-bottom Parameter
\* of self.params_include
BoundParams ==
    [{n \in IncludedNames : ~ParamsDict(n).is_bottom_node} -> {1, 2}]

\* get_bottom_node calls self.get_node(node_name, prm) for one of its parameters
CallGetNode ==
    /\ pc = "idle"
    /\ \E prm \in BoundParams :
       \E node_name \in {params[i].name : i \in 1..Len(params)} :
         /\ ~ParamsDict(node_name).is_bottom_node
         /\ LET g == GetNode(node_name, prm)
            IN  Idle([op |-> "get_node", node_name |-> node_name, params |-> prm,
                      status |-> IF g.err = None THEN "ok" ELSE "error",
                      err |-> IF g.err = None THEN "" ELSE g.err[1],
                      value |-> g.v])
    /\ UNCHANGED <<cfgvars, P, nodes, value, calls, out, mapf, mc, stats_cache, ncalls>>

\* the Parameters of get_node: a and b, optional or not, with a default or not (an
\* optional Parameter without default is refused by Parameter.__init__), and x
DefaultKinds == {<<FALSE, None>>, <<FALSE, Some(5)>>, <<TRUE, Some(5)>>}
GetNodeParams ==
    {<<Defaulted(Parameter("a", TRUE, FALSE, FALSE, ka[1]), ka[2]),
       Defaulted(Parameter("b", TRUE, FALSE, FALSE, kb[1]), kb[2]),
       Defaulted(Parameter("x", TRUE, FALSE, TRUE, FALSE), None)>> :
        <<ka, kb>> \in DefaultKinds \X DefaultKinds}

InitGetNode ==
    /\ data = <<Row(3, 1, 1)>>
    /\ is_group_model = FALSE
    /\ depends_on = <<>>
    /\ params \in GetNodeParams
    /\ include \in SUBSET {"a", "b"}
    /\ Constructed

NextGetNode == CallGetNode

SpecGetNode == InitGetNode /\ [][NextGetNode]_vars

---------------------------------------------------------------------------
(* Properties *)

\* the backend calls of the latest pass and bottom phase that built bottom nodes
BottomCalls == {i \in 1..Len(calls) : calls[i].seen.op = "bottom"}

\* the nodes of the published table
TableNodes == DictNodes(nodes)

\* the nodes in the containers of the included parameters
ContainerNodes ==
    UNION {DictNodes(P[n].group_nodes) \cup DictNodes(P[n].var_nodes)
               \cup DictNodes(P[n].subj_nodes) : n \in IncludedNames}

\* C1: create_nodes(retry = k) runs the pass of _create() at most k + 1 times. A
\* pass that fails with ZeroProbability or ValueError is followed by another pass
\* exactly while fewer than k retries were made; the first pass that succeeds ends
\* the loop (the bottom phase follows); when pass k + 1 fails too, the failure is
\* raised, no bottom node is constructed and no table is published.
C1_RetryBound ==
    /\ pc \in {"create", "bottom"} => passes <= retry + 1
    /\ out.ev # "none" => out.passes <= out.retry + 1
    /\ out.ev = "pass_retry" =>
          /\ out.kind \in BackendFailures
          /\ out.tries < out.retry
          /\ pc = "create" /\ passes = out.passes /\ tries = out.tries + 1
    /\ out.ev = "pass_ok" => pc = "bottom" /\ passes = out.passes
    /\ out.ev = "pass_raise" =>
          /\ out.kind \in BackendFailures =>
                out.tries = out.retry /\ out.passes = out.retry + 1
          /\ BottomCalls = {}
          /\ \A n \in TableNodes : n.gen # 0
          /\ pc # "bottom"
          /\ pc = "idle" => ret.status = "error"

\* create_nodes(retry = 1) gave up after its second pass failed with ValueError
C1_Witness ==
    /\ out.ev = "pass_raise" /\ out.kind = ValueError
    /\ out.retry = 1 /\ out.passes = 2
    /\ pc = "idle" /\ ret.op = "create_nodes" /\ ret.status = "error"

\* the slots a parameter's container holds, as a node keeps them
Refs(d) == {Ref(d[t]) : t \in DOMAIN d}

\* C2: after create_nodes returned successfully, every node in the group_nodes,
\* var_nodes and subj_nodes of an included parameter and every node of the
\* published table was constructed in the final, successful pass of that call
\* (none in a failed pass or an earlier call), and the group and variability
\* parents of every subject node are nodes of that pass, held by the parameter.
C2_FinalPassOnly ==
    out.ev = "published" =>
        /\ \A n \in ContainerNodes \cup TableNodes : n.gen = 0
        /\ TableNodes \subseteq ContainerNodes
        /\ \A n \in ContainerNodes :
              n.op = "subj" =>
                 /\ \A m \in NodesOf(n.mu) \cup NodesOf(n.sd) : m.gen = 0
                 /\ n.mu \in Refs(P[n.p].group_nodes)
                 /\ n.sd \in Refs(P[n.p].var_nodes)

\* create_nodes returned in the second run of map, after a failed pass, with
\* subject nodes in the containers
C2_Witness ==
    /\ out.ev = "published" /\ out.passes = 2
    /\ caller = "map" /\ mapf.i = 1
    /\ \E n \in ContainerNodes : n.op = "subj"

\* C3: when create_nodes has used up its retries, the exception it raises is of
\* the kind (ZeroProbability or ValueError) of the failure of its last pass, and
\* when a run of map has used up max_retry, map raises the kind of the failure of
\* the last attempt.
C3_SameKind ==
    /\ (pc = "idle" /\ ret.op = "create_nodes" /\ out.ev = "pass_raise"
            /\ out.kind \in BackendFailures)
          => ret.err = out.kind
    /\ (pc = "idle" /\ ret.op = "map" /\ ret.status = "error" /\ ret.exhausted)
          => ret.err = ret.attempts[Len(ret.attempts)].err

\* create_nodes gave up after a pass that failed with ValueError, and raised
\* ZeroProbability
C3_Diverges ==
    /\ pc = "idle" /\ ret.op = "create_nodes" /\ out.ev = "pass_raise"
    /\ out.kind = ValueError /\ ret.cause = ValueError
    /\ ret.err = ZeroProbability

\* the attempts of the map() that runs or has just ended, and its max_retry
MapAttempts ==
    IF pc # "idle" THEN mapf.attempts
    ELSE IF ret.op = "map" THEN ret.attempts
    ELSE <<>>
MapMaxRetry == IF pc = "idle" THEN ret.max_retry ELSE mapf.max_retry

\* the attempts among att[1..i] of run r that failed with ZeroProbability
FailedUpTo(att, r, i) ==
    Cardinality({j \in 1..i : att[j].run = r /\ ~att[j].ok /\ att[j].err = ZeroProbability})

\* C4 as stated: a run of map in which N attempts fail with ZeroProbability and
\* the next succeeds, succeeds iff N < max_retry.
C4_Stated ==
    \A i \in DOMAIN MapAttempts :
        MapAttempts[i].ok => FailedUpTo(MapAttempts, MapAttempts[i].run, i) < MapMaxRetry

\* C4, amended: a run in which N attempts fail with ZeroProbability and the next
\* succeeds, succeeds iff N = 0 or N < max_retry: the N-th failure of a run
\* (N >= 1) ends the whole estimation with ZeroProbability, and no attempt or run
\* follows, iff N >= max_retry; else another attempt of that run follows. The
\* count of retries is that of the failures of the run in progress.
C4_RetryPerRun ==
    LET att == MapAttempts
    IN  /\ \A i \in DOMAIN att :
              LET N == FailedUpTo(att, att[i].run, i)
              IN  /\ att[i].ok => (N = 0 \/ N < MapMaxRetry)
                  /\ (~att[i].ok /\ att[i].err = ZeroProbability) =>
                        IF N >= MapMaxRetry
                        THEN /\ i = Len(att)
                             /\ pc = "idle" /\ ret.status = "error"
                             /\ ret.err = ZeroProbability /\ ret.run = att[i].run
                        ELSE \/ i < Len(att) /\ att[i + 1].run = att[i].run
                             \/ /\ i = Len(att) /\ caller = "map"
                                /\ pc \in {"create", "bottom", "fit"}
                                /\ mapf.i = att[i].run
        /\ (caller = "map" /\ pc \in {"create", "bottom", "fit"}) =>
              mapf.retries = FailedUpTo(att, mapf.i, Len(att))

\* map(runs = 2, max_retry = 2) returned after one attempt failed in each run
C4_Witness ==
    /\ pc = "idle" /\ ret.op = "map" /\ ret.status = "ok"
    /\ ret.max_retry = 2 /\ ret.runs = 2
    /\ FailedUpTo(ret.attempts, 0, Len(ret.attempts)) = 1
    /\ FailedUpTo(ret.attempts, 1, Len(ret.attempts)) = 1

\* map has returned max_map
MapReturned == pc = "idle" /\ ret.op = "map" /\ ret.status = "ok"

\* the attempts of att that succeeded
OkAttempts(att) == {i \in DOMAIN att : att[i].ok}

\* C5: when map(runs = R), R >= 1, returns, exactly R fits were recorded, one for
\* each run (an attempt that failed recorded none), and the fit returned is a
\* recorded one whose logp is at least that of every recorded fit.
C5_BestOfRuns ==
    /\ Len(mapf.maps) = Cardinality(OkAttempts(mapf.attempts))
    /\ MapReturned =>
          /\ ret.runs >= 1
          /\ Len(ret.maps) = ret.runs
          /\ Cardinality(OkAttempts(ret.attempts)) = ret.runs
          /\ \A r \in 0..(ret.runs - 1) :
                Cardinality({i \in OkAttempts(ret.attempts) : ret.attempts[i].run = r}) = 1
          /\ \E j \in DOMAIN ret.maps : ret.maps[j] = ret.max_map
          /\ \A j \in DOMAIN ret.maps : ret.max_map.logp >= ret.maps[j].logp

\* map(runs = 2) returned the first of two fits, the better one, after an attempt
\* that failed
C5_Witness ==
    /\ MapReturned /\ ret.runs = 2
    /\ Len(ret.attempts) = 3
    /\ ret.max_map = ret.maps[1]
    /\ ret.maps[1].logp > ret.maps[2].logp

\* C6: after map returned, every node of the published table that is not observed
\* has the value of the node of that name of the winning fit, and every observed
\* node has the value it had before the values were copied.
C6_CopyBack ==
    MapReturned =>
        /\ DOMAIN value = {key \in DOMAIN nodes : nodes[key].k # "none"}
        /\ \A key \in DOMAIN value :
              IF Observed(nodes[key])
              THEN value[key] = ret.before[key] /\ value[key] = <<"data", 0>>
              ELSE /\ key \in DOMAIN ret.max_map.vals
                   /\ value[key] = ret.max_map.vals[key]

\* map returned the first of two fits: the nodes that are not observed have the
\* values of that fit, not those of the last run, and observed nodes exist
C6_Witness ==
    /\ MapReturned /\ ret.runs = 2 /\ ret.max_map.fit = 1
    /\ \E key \in DOMAIN value : Observed(nodes[key])
    /\ \E key \in DOMAIN value :
          ~Observed(nodes[key]) /\ value[key] = <<"fit", 1>> /\ ret.before[key] = <<"fit", 2>>

\* the two highest logp of the fits ms
TopTwoApart(ms) ==
    LET top == CHOOSE j \in DOMAIN ms : \A k \in DOMAIN ms : ms[j].logp >= ms[k].logp
        second == CHOOSE j \in DOMAIN ms \ {top} :
                      \A k \in DOMAIN ms \ {top} : ms[j].logp >= ms[k].logp
    IN  Abs(ms[top].logp - ms[second].logp)

\* C7: map prints the warning iff at least two runs were made and the two highest
\* logp of the recorded fits differ by more than warn_crit; with the warning
\* printed, max_map is returned still and its values are copied.
C7_Warning ==
    MapReturned =>
        /\ ret.warned <=> (ret.runs >= 2 /\ TopTwoApart(ret.maps) > ret.warn_crit)
        /\ ret.warned =>
              /\ \A j \in DOMAIN ret.maps : ret.max_map.logp >= ret.maps[j].logp
              /\ \A key \in ret.copied : value[key] = ret.max_map.vals[key]

\* map returned with the warning printed, and values copied
C7_Warned ==
    /\ MapReturned /\ ret.warned /\ TopTwoApart(ret.maps) = 7
    /\ ret.copied # {}

\* stats has returned, and statistics of another chain were cached when it began
StatsOfOtherChain ==
    /\ pc = "idle" /\ ret.op = "stats" /\ ret.status = "ok"
    /\ ret.before.set /\ ret.before.chain # ret.i_chain

\* C8: once statistics of chain c were served, a stats request for another chain
\* c2 computes the statistics anew from the sampler, caches them and c2 in place of
\* the old, and returns them.
C8_Recomputes ==
    StatsOfOtherChain =>
        /\ ret.computed
        /\ ret.val = McStats(mc, ret.kw)
        /\ stats_cache = [set |-> TRUE, chain |-> ret.i_chain, stats |-> ret.val]

\* stats for another chain than the cached one returned None, computed nothing
\* and left the cache as it was
C8_Diverges ==
    /\ StatsOfOtherChain
    /\ ret.val = NoneE /\ ~ret.computed
    /\ stats_cache = ret.before

\* the latest two calls were stats requests for one chain index
SameChainTwice ==
    /\ pc = "idle" /\ ret.op = "stats" /\ ret.status = "ok"
    /\ prev.op = "stats" /\ prev.status = "ok"
    /\ ret.i_chain = prev.i_chain

\* C9: two consecutive stats requests that resolve to one chain index (chain given,
\* or the chain count of the sampler) return the same cached statistics, and the
\* second does not compute statistics.
C9_SameCached ==
    SameChainTwice =>
        /\ ret.val = prev.val
        /\ ret.val.k = "stats"
        /\ ret.val = stats_cache.stats
        /\ ~ret.computed

\* two consecutive requests for a chain other than the cached one returned None
C9_Diverges ==
    /\ SameChainTwice
    /\ ret.val = NoneE /\ prev.val = NoneE
    /\ stats_cache.stats.k = "stats" /\ stats_cache.chain # ret.i_chain

\* the terminal partitions of the data: the rows of each value of the columns the
\* model depends on, under the tag the value gives
Partitions ==
    IF depends_on = <<>> THEN {[tag |-> "[]", rows |-> AllRows]}
    ELSE LET cols == depends_on[1].cols
         IN  {[tag |-> StrList(<<k>>), rows |-> {r \in AllRows : RowKey(r, cols) = k}] :
                 k \in {RowKey(r, cols) : r \in AllRows}}

\* C10: in a group model, after create_nodes, for every included bottom
\* parameter, terminal partition p and subject position i: if p has a row of
\* subject i, exactly one bottom node was constructed for (p, i), over these rows,
\* and it is subj_nodes[tag(p)][i]; if p has no such row, none was constructed and
\* the slot is None still. A pair without rows raises nothing: where the bottom
\* parameters have subject slots, the bottom phase raises only what the backend
\* raised.
C10_BottomPerPair ==
    /\ (is_group_model /\ out.ev = "bottom_raise"
           /\ \A k \in 1..Len(ParamsInclude) :
                 ParamsInclude[k].is_bottom_node => ParamsInclude[k].create_subj_nodes)
         => out.kind \in BackendFailures
    /\ (is_group_model /\ out.ev = "published") =>
        \A k \in 1..Len(ParamsInclude) :
            ParamsInclude[k].is_bottom_node =>
                LET name == ParamsInclude[k].name
                IN  /\ DOMAIN P[name].subj_nodes = {p.tag : p \in Partitions}
                    /\ \A p \in Partitions, i \in 1..NumSubjs :
                          LET rows == {r \in p.rows : data[r].subj_idx = Subjs[i]}
                              made == {j \in BottomCalls :
                                          /\ calls[j].seen.p = name
                                          /\ calls[j].seen.tag = Some(p.tag)
                                          /\ calls[j].seen.idx = Some(i - 1)}
                              slot == P[name].subj_nodes[p.tag].a[i]
                          IN  IF rows # {}
                              THEN /\ Cardinality(made) = 1
                                   /\ \A j \in made : /\ calls[j].ok
                                                       /\ calls[j].seen.data = Some(rows)
                                   /\ slot.k = "node"
                                   /\ slot.n.op = "bottom" /\ slot.n.gen = 0
                                   /\ slot.n.full_name = calls[CHOOSE j \in made : TRUE].seen.full_name
                              ELSE made = {} /\ slot = NoneE
                    /\ Cardinality({j \in BottomCalls : calls[j].seen.p = name}) =
                          Cardinality({<<p, i>> \in Partitions \X (1..NumSubjs) :
                                          \E r \in p.rows : data[r].subj_idx = Subjs[i]})

\* create_nodes returned in a group model that depends on c: subject 7 has no
\* row with c = 2, its slot is None, the other three slots hold bottom nodes
C10_Witness ==
    /\ is_group_model /\ out.ev = "published" /\ depends_on # <<>>
    /\ pc = "idle" /\ ret.op = "create_nodes" /\ ret.status = "ok"
    /\ P["x"].subj_nodes["[(2,)]"].a[2] = NoneE
    /\ P["x"].subj_nodes["[(2,)]"].a[1].k = "node"
    /\ Cardinality(BottomCalls) = 3

\* C11: in a model that is no group model, after create_nodes, for every included
\* bottom parameter exactly one bottom node was constructed for each terminal
\* partition, over the rows of the partition, and it is subj_nodes[tag]; every
\* such call saw idx = None, so that the name of the node is name + tag.
C11_BottomPerPartition ==
    (~is_group_model /\ out.ev = "published") =>
        \A k \in 1..Len(ParamsInclude) :
            ParamsInclude[k].is_bottom_node =>
                LET name == ParamsInclude[k].name
                IN  /\ DOMAIN P[name].subj_nodes = {p.tag : p \in Partitions}
                    /\ \A p \in Partitions :
                          LET made == {j \in BottomCalls :
                                          /\ calls[j].seen.p = name
                                          /\ calls[j].seen.tag = Some(p.tag)}
                              slot == P[name].subj_nodes[p.tag]
                          IN  /\ Cardinality(made) = 1
                              /\ \A j \in made :
                                    /\ calls[j].ok
                                    /\ calls[j].seen.idx = None
                                    /\ calls[j].seen.data = Some(p.rows)
                                    /\ calls[j].seen.full_name = name \o p.tag
                              /\ slot.k = "node"
                              /\ slot.n.op = "bottom" /\ slot.n.gen = 0
                              /\ slot.n.full_name = name \o p.tag
                    /\ Cardinality({j \in BottomCalls : calls[j].seen.p = name}) =
                          Cardinality(Partitions)

\* create_nodes returned in a model that is no group model and depends on c: two
\* bottom nodes, x[(1,)] and x[(2,)]
C11_Witness ==
    /\ ~is_group_model /\ out.ev = "published" /\ depends_on # <<>>
    /\ pc = "idle" /\ ret.op = "create_nodes" /\ ret.status = "ok"
    /\ Cardinality(BottomCalls) = 2
    /\ P["x"].subj_nodes["[(2,)]"].k = "node"
    /\ P["x"].subj_nodes["[(2,)]"].n.full_name = "x[(2,)]"

\* _get_data_depend has returned its terminals
Partitioned == pc = "idle" /\ ret.op = "_get_data_depend" /\ ret.status = "ok"

\* C12: for every dataset and dependency map of depth 0 to 3, the terminals of the
\* partitioner are pairwise disjoint by row and the union of their rows is the
\* rows of the dataset; with an empty dependency map there is one terminal, and it
\* holds the whole dataset.
C12_PartitionOfRows ==
    Partitioned =>
        /\ \A i, j \in DOMAIN ret.terms :
              i # j => ret.terms[i].data \cap ret.terms[j].data = {}
        /\ UNION {ret.terms[i].data : i \in DOMAIN ret.terms} = AllRows
        /\ \A i \in DOMAIN ret.terms : Len(ret.terms[i].dep_name) = Len(depends_on)
        /\ depends_on = <<>> => Len(ret.terms) = 1 /\ ret.terms[1].data = AllRows

\* a dataset of four rows was partitioned at depth 3 into four terminals
C12_Witness ==
    /\ Partitioned
    /\ Len(depends_on) = 3 /\ Len(data) = 4
    /\ Len(ret.terms) = 4

\* C13: the full_name of the nodes constructed in one successful pass of
\* create_nodes and its bottom phase (group, variability, subject and bottom nodes
\* of all included parameters) are pairwise different.
C13_UniqueNames ==
    out.ev = "published" =>
        \A i, j \in DOMAIN calls :
            i # j => calls[i].seen.full_name # calls[j].seen.full_name

\* create_nodes returned, and the group node and a subject node that its final
\* pass constructed for one parameter have one full_name
C13_Diverges ==
    /\ out.ev = "published" /\ pc = "idle" /\ ret.op = "create_nodes"
    /\ \E i, j \in DOMAIN calls :
          /\ calls[i].seen.op = "group" /\ calls[j].seen.op = "subj"
          /\ calls[i].seen.p = calls[j].seen.p
          /\ calls[i].seen.full_name = calls[j].seen.full_name

\* the tags under which a parameter that is no bottom parameter has nodes
TagsOf(name) ==
    IF name \in DependNames
    THEN {Str(RowKey(r, DependCols(name))) : r \in AllRows}
    ELSE {""}

\* every slot of e holds a node that the latest pass constructed
AllFresh(e) ==
    IF e.k = "node" THEN e.n.gen = 0
    ELSE IF e.k = "arr" THEN \A i \in DOMAIN e.a : e.a[i].k = "node" /\ e.a[i].n.gen = 0
    ELSE FALSE

\* C14: in create_nodes no bottom node is constructed before the group,
\* variability and subject nodes of every included parameter that is no bottom
\* parameter were constructed in a pass that succeeded, nor before the subj_nodes
\* of every included bottom parameter hold a placeholder for every partition tag.
C14_BottomLast ==
    BottomCalls # {} =>
        /\ out.ev \in {"published", "bottom_raise"}
        /\ \A i \in DOMAIN calls :
              calls[i].seen.op # "bottom" =>
                 /\ calls[i].ok
                 /\ \A j \in BottomCalls : i < j
        /\ \A k \in 1..Len(ParamsInclude) :
              LET param == ParamsInclude[k]
                  p == P[param.name]
              IN  IF param.is_bottom_node
                  THEN {q.tag : q \in Partitions} \subseteq DOMAIN p.subj_nodes
                  ELSE /\ DOMAIN p.group_nodes = TagsOf(param.name)
                       /\ \A t \in TagsOf(param.name) :
                             /\ p.group_nodes[t].k # "none" => AllFresh(p.group_nodes[t])
                             /\ param.create_group_node => AllFresh(p.group_nodes[t])
                             /\ (is_group_model /\ param.create_subj_nodes) =>
                                   /\ t \in DOMAIN p.var_nodes /\ AllFresh(p.var_nodes[t])
                                   /\ t \in DOMAIN p.subj_nodes /\ AllFresh(p.subj_nodes[t])
                                   /\ p.subj_nodes[t].k = "arr"
                                   /\ Len(p.subj_nodes[t].a) = NumSubjs

\* in a group model the first bottom call failed, after a pass that failed and one
\* that succeeded: the placeholder of the other partition is there, empty
C14_Witness ==
    /\ is_group_model /\ depends_on # <<>>
    /\ out.ev = "bottom_raise" /\ out.passes = 2
    /\ Cardinality(BottomCalls) = 1
    /\ "[(2,)]" \in DOMAIN P["x"].subj_nodes
    /\ P["x"].subj_nodes["[(2,)]"] = ArrE([i \in 1..NumSubjs |-> NoneE])
    /\ \E i \in DOMAIN calls : calls[i].seen.op = "subj"

\* the scratch fields that the set-up of the backend call c did not write are None
ScratchCleared(c) ==
    /\ c.subj = NoneE
    /\ c.op # "subj" => c.group = NoneE
    /\ c.op \in {"group", "var"} => c.idx = None
    /\ (c.op = "bottom" /\ ~is_group_model) => c.idx = None
    /\ (c.op = "group" /\ c.p \notin DependNames) => c.data = None

\* C15: whenever a backend call (group, variability, subject or bottom) begins,
\* every scratch field among tag, idx, data, group, subj that the set-up of the
\* call did not write is None, also after calls that failed and in the retries
\* that follow; a group or variability call sees idx = None.
C15_ScratchCleared ==
    \A i \in DOMAIN calls : ScratchCleared(calls[i].seen)

\* in the pass after a subject call failed, the group call saw the idx, the group
\* node and the data of the failed call
C15_Diverges ==
    /\ out.passes = 2 /\ out.ev = "pass_ok"
    /\ calls[1].seen.op = "group"
    /\ calls[1].seen.idx # None
    /\ calls[1].seen.group # NoneE

\* the distinct values of the column subj_idx
SubjValues == {data[i].subj_idx : i \in 1..Len(data)}

\* C16: when is_group_model is not given, the constructor sets it to true iff the
\* data have a column subj_idx with more than one distinct value, whatever the
\* dataset, one of zero rows included; when it is given as true and the data have
\* no column subj_idx the constructor raises ValueError; else the value given is
\* used.
C16_GroupModelRule ==
    (ret.op = "__init__" /\ ret.err # KeyError) =>
        IF ret.arg = None
        THEN /\ ret.status = "ok"
             /\ is_group_model <=> ("subj_idx" \in names /\ Cardinality(SubjValues) > 1)
        ELSE IF ret.arg[1] /\ "subj_idx" \notin names
        THEN ret.status = "error" /\ ret.err = ValueError /\ pc = "failed"
        ELSE ret.status = "ok" /\ is_group_model = ret.arg[1]

\* without the argument, data of zero rows with a column subj_idx made a group
\* model
C16_Diverges ==
    /\ ret.op = "__init__" /\ ret.status = "ok" /\ ret.arg = None
    /\ "subj_idx" \in names /\ data = <<>>
    /\ is_group_model = TRUE

\* C17: get_node(name, params) returns params[name] whenever the Parameter is
\* included (not optional, or named in include: the rule of params_include); it
\* returns the default only for a Parameter that is not included, and raises only
\* when a Parameter that is not included has no default.
C17_GetNodeIncluded ==
    ret.op = "get_node" =>
        IF ret.node_name \in IncludedNames
        THEN /\ ret.status = "ok"
             /\ ret.value = [kind |-> "node", v |-> ret.params[ret.node_name]]
        ELSE IF ParamsDict(ret.node_name).default # None
        THEN /\ ret.status = "ok"
             /\ ret.value = [kind |-> "default", v |-> ParamsDict(ret.node_name).default[1]]
        ELSE ret.status = "error" /\ ret.err = AssertionError

\* get_node of a Parameter that is not optional and not named in include: it is in
\* params_include, its node is in params, and get_node raises or returns the default
C17_Diverges ==
    /\ ret.op = "get_node"
    /\ ~ParamsDict(ret.node_name).optional
    /\ ret.node_name \notin include
    /\ ret.node_name \in DOMAIN ret.params
    /\ \/ ret.status = "error" /\ ret.err = AssertionError
       \/ ret.status = "ok" /\ ret.value.kind = "default"

StatsOps == {"stats", "print_stats", "print_group_stats"}

\* C18: stats, print_stats and print_group_stats, called while self.mc is None,
\* raise ValueError('No model found.'), compute no statistics and leave the cache
\* of stats unset.
C18_NoModelFound ==
    (ret.op \in StatsOps /\ ~mc.set) =>
        /\ ret.status = "error" /\ ret.err = ValueError /\ ret.msg = NoModelFound
        /\ ~ret.computed
        /\ ret.before = NoStats /\ stats_cache = NoStats

\* print_group_stats was called on a model without sampler, after a failed mcmc()
C18_Witness ==
    /\ pc = "idle" /\ ret.op = "print_group_stats" /\ ret.status = "error"
    /\ ~mc.set /\ out.ev \in {"pass_raise", "bottom_raise"}

\* C19: a ZeroProbability raised while create_nodes constructs a node, of
\* whichever tier, a bottom node included, is escalated only once the retries are
\* used up: create_nodes raises it only when tries has reached retry.
C19_AllRetried ==
    (out.ev \in {"pass_raise", "bottom_raise"} /\ out.kind = ZeroProbability) =>
        out.tries = out.retry

\* create_nodes(retry = 1) raised the ZeroProbability of a bottom node without
\* having retried
C19_Diverges ==
    /\ out.ev = "bottom_raise" /\ out.kind = ZeroProbability
    /\ out.retry = 1 /\ out.tries = 0 /\ out.passes = 1
    /\ pc = "idle" /\ ret.op = "create_nodes" /\ ret.status = "error"
    /\ \E i \in 1..Len(calls) : calls[i].seen.op = "bottom" /\ ~calls[i].ok

\* the backend calls that construct a group node of the Parameter name
GroupCalls(name) ==
    {i \in 1..Len(calls) : calls[i].seen.op = "group" /\ calls[i].seen.p = name}

\* C20: for an included Parameter that is no bottom node and has
\* create_group_node = False the backend constructs no group node, whether the
\* Parameter is in depends_on (_set_dependent_param) or not
\* (_set_independet_param).
C20_NoGroupNode ==
    \A i \in 1..Len(ParamsInclude) :
        LET param == ParamsInclude[i]
        IN  (~param.is_bottom_node /\ ~param.create_group_node) =>
                /\ GroupCalls(param.name) = {}
                /\ DictNodes(P[param.name].group_nodes) = {}

\* a Parameter outside depends_on, with create_group_node = False, whose group
\* node get_group_node constructed under the tag '' and create_nodes published
C20_Diverges ==
    /\ depends_on = <<>> /\ ~params[1].create_group_node
    /\ \E i \in GroupCalls(params[1].name) : calls[i].ok /\ calls[i].seen.tag = Some("")
    /\ DictNodes(P[params[1].name].group_nodes) # {}
    /\ pc = "idle" /\ ret.op = "create_nodes" /\ ret.status = "ok"

\* the binding of the Parameter name that the Partitioner carries into the
\* terminal named dep_name
Carried(name, dep_name) ==
    LET terms == GetDataDepend(P).terms
        t == CHOOSE k \in 1..Len(terms) : StrList(terms[k].dep_name) = dep_name
    IN  terms[t].params[name]

\* C21: in a group model, the bottom phase never raises KeyError, a bottom
\* Parameter with create_subj_nodes = False included; and every call of
\* get_bottom_node is given, for every included Parameter that creates no subject
\* nodes, its group node under the tag of the partition where group_nodes has
\* that tag, else the binding the Partitioner carried in.
C21_GroupBinding ==
    is_group_model =>
        /\ out.ev = "bottom_raise" => out.kind # KeyError
        /\ out.ev \in {"published", "bottom_raise"} =>
            \A j \in BottomCalls : \A k \in 1..Len(ParamsInclude) :
                LET sp == ParamsInclude[k]
                    dep_name == calls[j].seen.tag[1]
                IN  ~sp.create_subj_nodes =>
                      /\ sp.name \in DOMAIN calls[j].seen.bind
                      /\ calls[j].seen.bind[sp.name] =
                            IF dep_name \in DOMAIN P[sp.name].group_nodes
                            THEN Ref(P[sp.name].group_nodes[dep_name])
                            ELSE Ref(Carried(sp.name, dep_name))

\* a group model whose bottom Parameter has create_subj_nodes = False: the bottom
\* phase raised KeyError before any call of get_bottom_node
C21_Diverges ==
    /\ is_group_model
    /\ \E k \in 1..Len(ParamsInclude) :
          ParamsInclude[k].is_bottom_node /\ ~ParamsInclude[k].create_subj_nodes
    /\ out.ev = "bottom_raise" /\ out.kind = KeyError
    /\ BottomCalls = {}
    /\ pc = "idle" /\ ret.op = "create_nodes" /\ ret.status = "error"

SubjCalls == {j \in 1..Len(calls) : calls[j].seen.op = "subj"}

\* the call j constructed the node e, or e is None where no call was to be made
BuiltBy(e, j, op) ==
    /\ j \in 1..Len(calls)
    /\ calls[j].ok /\ calls[j].seen.op = op
    /\ e.k = "node" /\ e.n.op = op /\ e.n.p = calls[j].seen.p
    /\ e.n.full_name = calls[j].seen.full_name

\* C22: in _set_subj_nodes for a Parameter and a tag, get_var_node is called
\* first, then get_subj_node once per subject in the order of self._subjs; the
\* call for position i sees group = group_nodes[tag] (the node get_group_node
\* built just before, None where create_group_node is False), var =
\* var_nodes[tag] (the node of the call of get_var_node), idx = i and the rows of
\* the tag that are of this subject; its node is stored at subj_nodes[tag][i]. No
\* subject call of a tag comes before the group and variability entries of the
\* tag were made.
C22_SubjectExpansion ==
    /\ \A j \in SubjCalls :
          LET c == calls[j].seen
              i == c.idx[1]
              v == j - i - 1
              param == ParamNamed(c.p)
              grouped == param.name \notin DependNames \/ param.create_group_node
          IN  /\ is_group_model /\ param.create_subj_nodes
              /\ i \in 0..(NumSubjs - 1)
              /\ v >= 1
              /\ calls[v].seen.p = c.p
              /\ calls[v].seen.tag = Some("var" \o c.tag[1])
              /\ BuiltBy(c.var, v, "var")
              /\ \A m \in (v + 1)..(j - 1) :
                    /\ calls[m].ok /\ calls[m].seen.op = "subj"
                    /\ calls[m].seen.idx = Some(m - v - 1)
                    /\ calls[m].seen.tag = c.tag
              /\ c.data = Some({r \in calls[v].seen.data[1] : data[r].subj_idx = Subjs[i + 1]})
              /\ IF grouped
                 THEN /\ BuiltBy(c.group, v - 1, "group")
                      /\ calls[v - 1].seen.p = c.p /\ calls[v - 1].seen.tag = c.tag
                 ELSE c.group = NoneE
    /\ (is_group_model /\ out.ev \in {"pass_ok", "published"}) =>
          \A k \in 1..Len(ParamsInclude) :
              LET param == ParamsInclude[k]
                  p == P[param.name]
              IN  (~param.is_bottom_node /\ param.create_subj_nodes) =>
                    /\ DOMAIN p.subj_nodes = DOMAIN p.group_nodes
                    /\ DOMAIN p.var_nodes = DOMAIN p.group_nodes
                    /\ \A tag \in DOMAIN p.subj_nodes : \A i \in 1..NumSubjs :
                          LET slot == p.subj_nodes[tag].a[i]
                          IN  /\ slot.k = "node" /\ slot.n.op = "subj" /\ slot.n.gen = 0
                              /\ slot.n.mu = Ref(p.group_nodes[tag])
                              /\ slot.n.sd = Ref(p.var_nodes[tag])
                              /\ \E j \in SubjCalls :
                                    /\ BuiltBy(slot, j, "subj")
                                    /\ calls[j].seen.tag = Some(tag)
                                    /\ calls[j].seen.idx = Some(i - 1)
                                    /\ calls[j].seen.group = slot.n.mu
                                    /\ calls[j].seen.var = slot.n.sd

\* a group model published with subject nodes of two subjects under two tags
C22_Witness ==
    /\ is_group_model /\ out.ev = "published" /\ NumSubjs >= 2
    /\ depends_on # <<>>
    /\ \E t1, t2 \in DOMAIN P[params[1].name].subj_nodes : t1 # t2
    /\ \E j \in SubjCalls : calls[j].ok /\ calls[j].seen.idx = Some(1)
                             /\ calls[j].seen.group # NoneE

C24_SamplerCurrent ==
    (pc = "idle" /\ ret.op = "sample" /\ ret.status = "ok") =>
        mc.set /\ mc.over = "live"

\* sample() ran the sampler of mcmc() after create_nodes had published another
\* table
C24_Diverges ==
    /\ pc = "idle" /\ ret.op = "sample" /\ ret.status = "ok"
    /\ out.ev = "published" /\ ncalls = 2
    /\ mc.set /\ mc.chains >= 1 /\ mc.over = "stale"

\* C25: a statistics object that stats returns was computed by the sampler that
\* the model holds now: after mcmc() replaced the sampler, stats returns nothing
\* computed by the sampler before, the chain index asked for being the cached one
\* or not.
C25_StatsOfCurrentSampler ==
    (pc = "idle" /\ ret.op = "stats" /\ ret.status = "ok" /\ ret.val # NoneE) =>
        ret.val.by = mc.id

\* after a second mcmc(), stats for the cached chain index returned the cached
\* statistics of the first sampler
C25_Diverges ==
    /\ pc = "idle" /\ ret.op = "stats" /\ ret.status = "ok"
    /\ mc.id = 2 /\ ret.val # NoneE /\ ret.val.by = 1
    /\ ~ret.computed
    /\ ret.before.set /\ ret.before.chain = ret.i_chain

====
